---- MODULE Spec2Model ----
(***************************************************************************)
(* A model of the notebook kernel of the "Shallow and Deep Copies"         *)
(* practice problems: the kernel namespace (the names a and b), the heap   *)
(* of list / ndarray objects the names refer to, and one action per        *)
(* statement the cells execute (binding a literal, plain assignment,       *)
(* copy.copy, copy.deepcopy, a.copy(), item assignment, del).              *)
(*                                                                         *)
(* Python integers are immutable, so an int element is modelled by its     *)
(* value; a list element that is itself a list is a reference to another   *)
(* heap object.  Python indices are 0-based, TLA+ sequences 1-based: the   *)
(* actions take the Python index i and address items[i + 1].               *)
(***************************************************************************)
EXTENDS Integers, Sequences, FiniteSets, TLC

\* Number of heap cells: a and b can each hold a list of two inner lists (3
\* objects each) while the right-hand side of a new binding (3 more objects)
\* is built before the old binding is dropped.
MaxObj == 9

\* Number of statements one kernel session executes.
MaxSteps == 4

Names == {"a", "b"}

ObjIds == 1..MaxObj

\* The literals of the cells.
FlatLiteral == <<1, 2, 3, 4, 5, 6>>

NestedLiteral == << <<1, 2, 3, 4>>, <<5, 6, 7, 8>> >>

ArrayLiteral == <<1, 2, 3, 4>>

\* The values the cells assign to an item: b[3] = 71, b[0][2] = 71, b[2] = 1.
Vals == {71, 1}

VARIABLES
    ns,        \* kernel namespace: name -> object id, 0 when the name is unbound
    heap,      \* object id -> [kind, items]
    rel,       \* history: the statement that last bound b from a
    replaced,  \* history: top-level indices assigned since b was last bound
    last,      \* history: the statement executed last
    nsteps,    \* number of statements executed
    \* the loop exercises (Data Structures, Conditionals and Loops)
    prog,            \* the exercise being run
    pc,              \* the position in it
    cursor,          \* number of items the running for loop has consumed
    sample_words,    \* the list the word count iterates over
    my_dict,         \* the dictionary of the word count
    steps,           \* the list the position loop iterates over
    position,        \* the position
    printed,         \* what the exercise has printed so far
    m,               \* the number whose multiples are listed
    multiples_loop,  \* the list built with the for loop and append
    multiples,       \* the list built with the list comprehension
    run,             \* which of the four approximation loops is running
    N,               \* its N
    approx_pi,       \* the accumulator: the indices of the terms added, in order
    \* whole cells run in one kernel (Shallow and Deep Copies)
    mods,            \* the imported modules
    frames,          \* the names df and df_copy: name -> frame id, 0 when unbound
    fstore,          \* frame id -> the table of the DataFrame
    deleted,         \* history: the names removed by del and not bound since
    cell,            \* the code of the cell run last
    out,             \* what it displayed
    err,             \* the error it ended with, "" when it ran to its end
    ncells           \* number of cells run

kvars == <<ns, heap, rel, replaced, last, nsteps>>

lvars == <<prog, pc, cursor, sample_words, my_dict, steps, position, printed, m,
           multiples_loop, multiples, run, N, approx_pi>>

cvars == <<mods, frames, fstore, deleted, cell, out, err, ncells>>

vars == <<kvars, lvars, cvars>>

----------------------------------------------------------------------------
\* Heap objects and their elements

IntElem(n) == [k |-> "int", v |-> n]

RefElem(id) == [k |-> "ref", v |-> id]

FreeObj == [kind |-> "free", items |-> <<>>]

IntItems(s) == [i \in 1..Len(s) |-> IntElem(s[i])]

\* The ids an object's items refer to.
RefsOf(h, id) == {h[id].items[i].v : i \in {j \in 1..Len(h[id].items) : h[id].items[j].k = "ref"}}

RECURSIVE Closure(_, _)
Closure(h, S) ==
    LET T == S \cup UNION {RefsOf(h, id) : id \in S}
    IN  IF T = S THEN S ELSE Closure(h, T)

\* The objects reachable from the names of the namespace.
Reachable(nsv, h) == Closure(h, {nsv[n] : n \in Names} \ {0})

\* Reference counting: an object no name reaches any more is freed.
Collect(nsv, h) == [id \in ObjIds |-> IF id \in Reachable(nsv, h) THEN h[id] ELSE FreeObj]

FreeIds(h) == {id \in ObjIds : h[id].kind = "free"}

Lowest(S) == CHOOSE x \in S : \A y \in S : x <= y

\* The allocator hands out the lowest free cell.
Fresh(h) == Lowest(FreeIds(h))

\* The order-preserving map of the objects R onto the |R| lowest free cells.
FreshMap(h, R) ==
    CHOOSE f \in [R -> FreeIds(h)] :
        /\ \A x, y \in R : x < y => f[x] < f[y]
        /\ \A id \in FreeIds(h) \ {f[z] : z \in R} : \A x \in R : f[x] < id

Bound(nsv, n) == nsv[n] # 0

\* What reading a name prints: each top-level element with its contents.
ElemValue(h, e) ==
    IF e.k = "ref" THEN [k |-> "list", v |-> [i \in 1..Len(h[e.v].items) |-> h[e.v].items[i].v]]
    ELSE [k |-> "int", v |-> <<e.v>>]

ObjValue(h, id) == [i \in 1..Len(h[id].items) |-> ElemValue(h, h[id].items[i])]

Read(nsv, h, n) == ObjValue(h, nsv[n])

----------------------------------------------------------------------------
\* The statements of the cells, as functions from the kernel state before the
\* statement to the kernel state after it.

State(nsv, h) == [ns |-> nsv, heap |-> Collect(nsv, h)]

\* n = [x, y, ...] and n = np.array([x, y, ...]): a new object holding the
\* literal's values is built, then the name is bound to it.
BindFlat(nsv, h, n, kind, lit) ==
    LET id == Fresh(h)
    IN  State([nsv EXCEPT ![n] = id],
              [h EXCEPT ![id] = [kind |-> kind, items |-> IntItems(lit)]])

\* The inner list displays of a nested literal are evaluated left to right,
\* each into a new list; AllocInner returns the heap and the new ids.
RECURSIVE AllocInner(_, _, _)
AllocInner(h, lit, k) ==
    IF k = 0 THEN [heap |-> h, ids |-> <<>>]
    ELSE LET r  == AllocInner(h, lit, k - 1)
             id == Fresh(r.heap)
         IN  [heap |-> [r.heap EXCEPT ![id] = [kind |-> "list", items |-> IntItems(lit[k])]],
              ids  |-> Append(r.ids, id)]

\* n = [[...], [...]]: the inner lists, then the outer list of references.
BindNested(nsv, h, n, lit) ==
    LET r  == AllocInner(h, lit, Len(lit))
        id == Fresh(r.heap)
    IN  State([nsv EXCEPT ![n] = id],
              [r.heap EXCEPT ![id] = [kind  |-> "list",
                                      items |-> [i \in 1..Len(lit) |-> RefElem(r.ids[i])]]])

\* A plain assignment that duplicates the object instead of sharing it.
AliasBindCopies(nsv, h) ==
    LET id == Fresh(h)
    IN  State([nsv EXCEPT !["b"] = id], [h EXCEPT ![id] = h[nsv["a"]]])

\* b = a: the name b is bound to the object a refers to; no object is made.
AliasBind(nsv, h) == State([nsv EXCEPT !["b"] = nsv["a"]], h)

\* A copy of the object a refers to and of every object reachable from it:
\* each gets a new cell, and references between them are redirected to the
\* new cells (the memo of copy.deepcopy).
CopyReachable(nsv, h) ==
    LET R == Closure(h, {nsv["a"]})
        f == FreshMap(h, R)
        Redirect(e) == IF e.k = "ref" THEN RefElem(f[e.v]) ELSE e
        Dup(x) == [kind  |-> h[x].kind,
                   items |-> [i \in 1..Len(h[x].items) |-> Redirect(h[x].items[i])]]
        h1 == [id \in ObjIds |->
                  IF \E x \in R : f[x] = id
                  THEN Dup(CHOOSE x \in R : f[x] = id)
                  ELSE h[id]]
    IN  State([nsv EXCEPT !["b"] = f[nsv["a"]]], h1)

\* A shallow copy that shares the object itself.
ShallowCopyShares(nsv, h) == AliasBind(nsv, h)

\* A shallow copy that also duplicates the nested lists.
ShallowCopyRecursive(nsv, h) == CopyReachable(nsv, h)

\* b = copy.copy(a) and b = a.copy(): a new object of the same kind whose
\* items are the items of a, references included.
ShallowCopyBind(nsv, h) ==
    LET id == Fresh(h)
    IN  State([nsv EXCEPT !["b"] = id], [h EXCEPT ![id] = h[nsv["a"]]])

\* A deep copy that stops at the top level.
DeepCopyTopOnly(nsv, h) == ShallowCopyBind(nsv, h)

\* b = copy.deepcopy(a).
DeepCopyBind(nsv, h) == CopyReachable(nsv, h)

\* n[i] = v: item i of the object n refers to is replaced, in place.
StoreItem(nsv, h, n, i, v) ==
    State(nsv, [h EXCEPT ![nsv[n]].items[i + 1] = IntElem(v)])

\* n[i][j] = v: n[i] is evaluated to the inner list, whose item j is replaced.
StoreNested(nsv, h, n, i, j, v) ==
    State(nsv, [h EXCEPT ![h[nsv[n]].items[i + 1].v].items[j + 1] = IntElem(v)])

\* del a, b: the names are removed left to right.
DelNames(nsv, h) == State([n \in Names |-> 0], h)

----------------------------------------------------------------------------
\* The kernel

Stmt(op, n, i, j, v) == [op |-> op, n |-> n, i |-> i, j |-> j, v |-> v]

NoArg == -1

\* A kernel that has executed nothing.
FreshKernel ==
    /\ ns = [n \in Names |-> 0]
    /\ heap = [id \in ObjIds |-> FreeObj]
    /\ rel = "none"
    /\ replaced = {}
    /\ last = Stmt("start", "", NoArg, NoArg, NoArg)
    /\ nsteps = 0

\* The loop exercise p at its first statement, with its inputs.
LoopStart(p, words, st, mm) ==
    /\ prog = p
    /\ pc = "start"
    /\ cursor = 0
    /\ sample_words = words
    /\ my_dict = <<>>
    /\ steps = st
    /\ position = 0
    /\ printed = <<>>
    /\ m = mm
    /\ multiples_loop = <<>>
    /\ multiples = <<>>
    /\ run = 1
    /\ N = 0
    /\ approx_pi = <<>>

\* No loop exercise is run.
NoLoop == LoopStart("none", <<>>, <<>>, 0)

\* The names and the store of the DataFrames.
FrameNames == {"df", "df_copy"}

MaxFrames == 3

FrameIds == 1..MaxFrames

NoFrame == [free |-> TRUE, table |-> <<>>]

\* No cell has been run: nothing imported, no DataFrame.
NoCells ==
    /\ mods = {}
    /\ frames = [n \in FrameNames |-> 0]
    /\ fstore = [id \in FrameIds |-> NoFrame]
    /\ deleted = {}
    /\ cell = <<>>
    /\ out = <<>>
    /\ err = ""
    /\ ncells = 0

Init == FreshKernel /\ NoLoop /\ NoCells

CanRun == nsteps < MaxSteps

HasRoom(k) == Cardinality(FreeIds(heap)) >= k

Apply(s, r, stmt) ==
    /\ ns' = s.ns
    /\ heap' = s.heap
    /\ rel' = r
    /\ replaced' = {}
    /\ last' = stmt
    /\ nsteps' = nsteps + 1
    /\ UNCHANGED <<lvars, cvars>>

\* a = [1,2,3,4,5,6]
AssignList ==
    /\ CanRun /\ HasRoom(1)
    /\ Apply(BindFlat(ns, heap, "a", "list", FlatLiteral), "none",
             Stmt("list", "a", NoArg, NoArg, NoArg))

\* a = [[1, 2, 3, 4], [5, 6, 7, 8]]
AssignNested ==
    /\ CanRun /\ HasRoom(Len(NestedLiteral) + 1)
    /\ Apply(BindNested(ns, heap, "a", NestedLiteral), "none",
             Stmt("nested", "a", NoArg, NoArg, NoArg))

\* a = np.array([1,2,3,4])
AssignArray ==
    /\ CanRun /\ HasRoom(1)
    /\ Apply(BindFlat(ns, heap, "a", "ndarray", ArrayLiteral), "none",
             Stmt("array", "a", NoArg, NoArg, NoArg))

\* b = a
Alias ==
    /\ CanRun /\ Bound(ns, "a")
    /\ Apply(AliasBind(ns, heap), "alias", Stmt("alias", "b", NoArg, NoArg, NoArg))

\* b = copy.copy(a)
CopyCopy ==
    /\ CanRun /\ Bound(ns, "a") /\ HasRoom(1)
    /\ Apply(ShallowCopyBind(ns, heap), "shallow", Stmt("copy", "b", NoArg, NoArg, NoArg))

\* b = a.copy()
MethodCopy ==
    /\ CanRun /\ Bound(ns, "a") /\ HasRoom(1)
    /\ Apply(ShallowCopyBind(ns, heap), "acopy", Stmt("acopy", "b", NoArg, NoArg, NoArg))

\* b = copy.deepcopy(a)
DeepCopy ==
    /\ CanRun /\ Bound(ns, "a")
    /\ HasRoom(Cardinality(Closure(heap, {ns["a"]})))
    /\ Apply(DeepCopyBind(ns, heap), "deep", Stmt("deepcopy", "b", NoArg, NoArg, NoArg))

\* n[i] = v
SetItem(n, i, v) ==
    /\ CanRun /\ Bound(ns, n)
    /\ i < Len(heap[ns[n]].items)
    /\ LET s == StoreItem(ns, heap, n, i, v)
       IN  /\ ns' = s.ns
           /\ heap' = s.heap
    /\ replaced' = replaced \cup {i}
    /\ last' = Stmt("setitem", n, i, NoArg, v)
    /\ nsteps' = nsteps + 1
    /\ UNCHANGED <<rel, lvars, cvars>>

\* n[i][j] = v
SetNested(n, i, j, v) ==
    /\ CanRun /\ Bound(ns, n)
    /\ i < Len(heap[ns[n]].items)
    /\ heap[ns[n]].items[i + 1].k = "ref"
    /\ j < Len(heap[heap[ns[n]].items[i + 1].v].items)
    /\ LET s == StoreNested(ns, heap, n, i, j, v)
       IN  /\ ns' = s.ns
           /\ heap' = s.heap
    /\ last' = Stmt("setnested", n, i, j, v)
    /\ nsteps' = nsteps + 1
    /\ UNCHANGED <<rel, replaced, lvars, cvars>>

\* del a, b
Del ==
    /\ CanRun /\ Bound(ns, "a") /\ Bound(ns, "b")
    /\ Apply(DelNames(ns, heap), "none", Stmt("del", "", NoArg, NoArg, NoArg))

MaxIndex == 3

Indices == 0..MaxIndex

Next ==
    \/ AssignList
    \/ AssignNested
    \/ AssignArray
    \/ Alias
    \/ CopyCopy
    \/ MethodCopy
    \/ DeepCopy
    \/ \E n \in Names, i \in Indices, v \in Vals : SetItem(n, i, v)
    \/ \E n \in Names, i \in Indices, j \in Indices, v \in Vals : SetNested(n, i, j, v)
    \/ Del

Spec == Init /\ [][Next]_vars

----------------------------------------------------------------------------
\* What the cells print for a flat and for a nested list.

Shown(lit) == [i \in 1..Len(lit) |-> [k |-> "int", v |-> <<lit[i]>>]]

ShownNested(lit) == [i \in 1..Len(lit) |-> [k |-> "list", v |-> lit[i]]]

ReadA == Read(ns, heap, "a")

ReadB == Read(ns, heap, "b")

\* Every item of the object the name refers to is an int (a flat sequence).
Flat(nsv, h, n) == \A i \in 1..Len(h[nsv[n]].items) : h[nsv[n]].items[i].k = "int"

\* The last statement was an item assignment (n[i] = v or n[i][j] = v) through n.
AssignedThrough(stmt, n) == stmt.op \in {"setitem", "setnested"} /\ stmt.n = n

----------------------------------------------------------------------------
\* C7: after the plain assignment b = a (of a list or of a numpy array) the
\* two names refer to the same object, and after any sequence of item
\* assignments made through either name reading a and reading b give the
\* same contents; in particular b[3] = 71 makes a[3] == 71.
C7_AliasSameContents ==
    rel = "alias" =>
        /\ ns["a"] = ns["b"]
        /\ ReadA = ReadB
        /\ (last = Stmt("setitem", "b", 3, NoArg, 71) /\ Len(ReadA) > 3) =>
               ReadA[4] = [k |-> "int", v |-> <<71>>]

\* C7 witness: a = [1,2,3,4,5,6]; b = a; b[3] = 71 prints [1, 2, 3, 71, 5, 6] twice.
C7_Witness ==
    /\ rel = "alias"
    /\ last = Stmt("setitem", "b", 3, NoArg, 71)
    /\ heap[ns["a"]].kind = "list"
    /\ ReadA = Shown(<<1, 2, 3, 71, 5, 6>>)
    /\ ReadB = Shown(<<1, 2, 3, 71, 5, 6>>)

\* C8: after b = copy.copy(a) on a list of lists, b[i] and a[i] are the same
\* inner list for every index i (not assigned at the top level since), so an
\* item assignment b[i][j] = v made through the copy shows as a[i][j] == v.
C8_ShallowSharesNested ==
    rel = "shallow" =>
        /\ \A i \in 1..Len(heap[ns["a"]].items) :
               (heap[ns["a"]].items[i].k = "ref" /\ (i - 1) \notin replaced) =>
                   heap[ns["b"]].items[i] = heap[ns["a"]].items[i]
        /\ (last.op = "setnested" /\ last.n = "b" /\ last.i \notin replaced) =>
               ReadA[last.i + 1].v[last.j + 1] = last.v

\* C8 witness: a = [[1,2,3,4],[5,6,7,8]]; b = copy.copy(a); b[0][2] = 71 shows
\* a as [[1, 2, 71, 4], [5, 6, 7, 8]].
C8_Witness ==
    /\ rel = "shallow"
    /\ last = Stmt("setnested", "b", 0, 2, 71)
    /\ ReadA = ShownNested(<< <<1, 2, 71, 4>>, <<5, 6, 7, 8>> >>)

\* C9: after b = copy.deepcopy(a) the objects reachable from a and from b are
\* disjoint, every item assignment made through b (top-level or nested)
\* leaves the contents of a unchanged, and every one made through a leaves
\* the contents of b unchanged.
C9_DeepCopyIndependent ==
    [][(rel = "deep" /\ rel' = "deep") =>
          /\ Closure(heap', {ns'["a"]}) \cap Closure(heap', {ns'["b"]}) = {}
          /\ AssignedThrough(last', "b") => Read(ns', heap', "a") = ReadA
          /\ AssignedThrough(last', "a") => Read(ns', heap', "b") = ReadB]_vars

\* C9 witness: a = [[1,2,3,4],[5,6,7,8]]; b = copy.deepcopy(a); b[0][2] = 71
\* shows a as [[1, 2, 3, 4], [5, 6, 7, 8]].
C9_Witness ==
    /\ rel = "deep"
    /\ last = Stmt("setnested", "b", 0, 2, 71)
    /\ ReadA = ShownNested(NestedLiteral)
    /\ ReadB = ShownNested(<< <<1, 2, 71, 4>>, <<5, 6, 7, 8>> >>)

\* C10: for a flat sequence, after b = copy.copy(a) or b = a.copy() an item
\* assignment made through the copy leaves every element of the original
\* unchanged.
C10_FlatCopyIndependent ==
    [][(/\ rel \in {"shallow", "acopy"}
        /\ rel' = rel
        /\ Flat(ns, heap, "a")
        /\ AssignedThrough(last', "b")) => Read(ns', heap', "a") = ReadA]_vars

\* C10 witness: a = np.array([1,2,3,4]); b = a.copy(); b[2] = 1 prints
\* [1 2 3 4] and [1 2 1 4].
C10_Witness ==
    /\ rel = "acopy"
    /\ last = Stmt("setitem", "b", 2, NoArg, 1)
    /\ heap[ns["a"]].kind = "ndarray"
    /\ ReadA = Shown(ArrayLiteral)
    /\ ReadB = Shown(<<1, 2, 1, 4>>)

----------------------------------------------------------------------------
\* The loop exercises of "Data Structures, Conditionals and Loops".

\* range(lo, hi): the integers lo, lo + 1, ..., hi - 1.
Range(lo, hi) == [j \in 1..(IF hi > lo THEN hi - lo ELSE 0) |-> lo + j - 1]

\* The sequences over S of length at most n.
SeqsUpTo(S, n) == UNION {[1..l -> S] : l \in 0..n}

SampleWords ==
    <<"apple", "banana", "apple", "computer", "computer",
      "programming", "language", "Obama", "Bush", "Trump",
      "Eisenhower", "president", "president", "president",
      "president", "dog", "dog", "cat", "duck", "duck", "goose",
      "baseball", "basketball", "football", "hockey", "soccer",
      "sports", "lebron", "james", "darius", "garland">>

StepsList ==
    <<-1, 1, 1, -1, -1, 1, 1, 1, -1, -1, -1, -1, -1, 1, -1, 1, -1, 1, 1, 1, -1, -1, 1, 1, -1, -1>>

\* Word lists the word count is run on: the notebook's, and every list of at
\* most MaxWords words over three of its words.
MaxWords == 4

Words == {"apple", "banana", "computer"}

WordLists == SeqsUpTo(Words, MaxWords) \cup {SampleWords}

\* Step lists the position loop is run on: the notebook's, and every list of
\* at most MaxWalk steps of -1 or 1.
MaxWalk == 5

WalkLists == SeqsUpTo({-1, 1}, MaxWalk) \cup {StepsList}

\* The numbers whose multiples are listed: 1..MaxM (the notebook uses 3 and 7).
MaxM == 7

\* range(1,21) of both constructions of the multiples.
RangeLo == 1

RangeHi == 21

\* N = 10, 20, 100, 1000 of the four approximation loops, in cell order.
NValues == <<10, 20, 100, 1000>>

\* A word count that starts a new word at 0.
DictStepFromZero(d, word) ==
    IF word \in DOMAIN d THEN [d EXCEPT ![word] = d[word] + 1] ELSE d @@ (word :> 0)

\* if word in my_dict.keys(): my_dict[word]=my_dict[word]+1  else: my_dict[word]=1
DictStep(d, word) ==
    IF word \in DOMAIN d THEN [d EXCEPT ![word] = d[word] + 1] ELSE d @@ (word :> 1)

\* A position update that overwrites the position with the step.
AdvanceOverwrites(pos, step) == step

\* position = position + i
Advance(pos, step) == pos + step

\* A range that starts at 0 whatever its lower end.
MultRangeFromZero == Range(0, RangeHi - 1)

\* range(1,21)
MultRange == Range(RangeLo, RangeHi)

\* [mm*i for i in r]
Comprehension(mm, r) == [j \in 1..Len(r) |-> mm * r[j]]

\* An accumulator that is not reset between the loops.
ResetKeeps(acc) == acc

\* approx_pi=0: no term has been added.
Reset(acc) == <<>>

\* range(N+1)
PiRange(n) == Range(0, n + 1)

InitLoops ==
    /\ FreshKernel
    /\ NoCells
    /\ \/ \E w \in WordLists : LoopStart("count", w, <<>>, 0)
       \/ \E st \in WalkLists : LoopStart("walk", <<>>, st, 0)
       \/ \E mm \in 1..MaxM : LoopStart("mult", <<>>, <<>>, mm)
       \/ LoopStart("pi", <<>>, <<>>, 0)

\* my_dict={}
CountInit ==
    /\ prog = "count" /\ pc = "start"
    /\ my_dict' = <<>>
    /\ pc' = "loop"
    /\ UNCHANGED <<kvars, cvars, prog, cursor, sample_words, steps, position, printed, m,
                   multiples_loop, multiples, run, N, approx_pi>>

\* for word in sample_words: one iteration
CountStep ==
    /\ prog = "count" /\ pc = "loop"
    /\ cursor < Len(sample_words)
    /\ my_dict' = DictStep(my_dict, sample_words[cursor + 1])
    /\ cursor' = cursor + 1
    /\ UNCHANGED <<kvars, cvars, prog, pc, sample_words, steps, position, printed, m,
                   multiples_loop, multiples, run, N, approx_pi>>

\* the list is exhausted; my_dict is displayed
CountEnd ==
    /\ prog = "count" /\ pc = "loop"
    /\ cursor = Len(sample_words)
    /\ pc' = "done"
    /\ UNCHANGED <<kvars, cvars, prog, cursor, sample_words, my_dict, steps, position, printed, m,
                   multiples_loop, multiples, run, N, approx_pi>>

\* position = 0
WalkInit ==
    /\ prog = "walk" /\ pc = "start"
    /\ position' = 0
    /\ pc' = "loop"
    /\ UNCHANGED <<kvars, cvars, prog, cursor, sample_words, my_dict, steps, printed, m,
                   multiples_loop, multiples, run, N, approx_pi>>

\* for i in steps: print(position)
WalkPrint ==
    /\ prog = "walk" /\ pc = "loop"
    /\ cursor < Len(steps)
    /\ printed' = Append(printed, position)
    /\ pc' = "move"
    /\ UNCHANGED <<kvars, cvars, prog, cursor, sample_words, my_dict, steps, position, m,
                   multiples_loop, multiples, run, N, approx_pi>>

\* position = position + i
WalkMove ==
    /\ prog = "walk" /\ pc = "move"
    /\ position' = Advance(position, steps[cursor + 1])
    /\ cursor' = cursor + 1
    /\ pc' = "loop"
    /\ UNCHANGED <<kvars, cvars, prog, sample_words, my_dict, steps, printed, m,
                   multiples_loop, multiples, run, N, approx_pi>>

\* the list is exhausted
WalkEnd ==
    /\ prog = "walk" /\ pc = "loop"
    /\ cursor = Len(steps)
    /\ pc' = "done"
    /\ UNCHANGED <<kvars, cvars, prog, cursor, sample_words, my_dict, steps, position, printed, m,
                   multiples_loop, multiples, run, N, approx_pi>>

\* multiples_loop = []
MultInit ==
    /\ prog = "mult" /\ pc = "start"
    /\ multiples_loop' = <<>>
    /\ pc' = "loop"
    /\ UNCHANGED <<kvars, cvars, prog, cursor, sample_words, my_dict, steps, position, printed, m,
                   multiples, run, N, approx_pi>>

\* for i in range(1,21): multiples_loop.append(m*i)
MultAppend ==
    /\ prog = "mult" /\ pc = "loop"
    /\ cursor < Len(MultRange)
    /\ multiples_loop' = Append(multiples_loop, m * MultRange[cursor + 1])
    /\ cursor' = cursor + 1
    /\ UNCHANGED <<kvars, cvars, prog, pc, sample_words, my_dict, steps, position, printed, m,
                   multiples, run, N, approx_pi>>

\* the range is exhausted; multiples_loop is displayed
MultEnd ==
    /\ prog = "mult" /\ pc = "loop"
    /\ cursor = Len(MultRange)
    /\ pc' = "comp"
    /\ UNCHANGED <<kvars, cvars, prog, cursor, sample_words, my_dict, steps, position, printed, m,
                   multiples_loop, multiples, run, N, approx_pi>>

\* multiples = [m*i for i in range(1,21)]
MultComprehension ==
    /\ prog = "mult" /\ pc = "comp"
    /\ multiples' = Comprehension(m, MultRange)
    /\ pc' = "done"
    /\ UNCHANGED <<kvars, cvars, prog, cursor, sample_words, my_dict, steps, position, printed, m,
                   multiples_loop, run, N, approx_pi>>

\* approx_pi=0; N=...
PiReset ==
    /\ prog = "pi" /\ pc = "start"
    /\ approx_pi' = Reset(approx_pi)
    /\ N' = NValues[run]
    /\ cursor' = 0
    /\ pc' = "loop"
    /\ UNCHANGED <<kvars, cvars, prog, sample_words, my_dict, steps, position, printed, m,
                   multiples_loop, multiples, run>>

\* for i in range(N+1): approx_pi = approx_pi + 8/((4*i + 1)*(4*i + 3))
PiAdd ==
    /\ prog = "pi" /\ pc = "loop"
    /\ cursor < Len(PiRange(N))
    /\ approx_pi' = Append(approx_pi, PiRange(N)[cursor + 1])
    /\ cursor' = cursor + 1
    /\ UNCHANGED <<kvars, cvars, prog, pc, sample_words, my_dict, steps, position, printed, m,
                   multiples_loop, multiples, run, N>>

\* print("For N=", N, "approximation is", approx_pi); then the next loop, if any
PiPrint ==
    /\ prog = "pi" /\ pc = "loop"
    /\ cursor = Len(PiRange(N))
    /\ printed' = Append(printed, [N |-> N, approx_pi |-> approx_pi])
    /\ IF run < Len(NValues)
       THEN run' = run + 1 /\ pc' = "start"
       ELSE run' = run /\ pc' = "done"
    /\ UNCHANGED <<kvars, cvars, prog, cursor, sample_words, my_dict, steps, position, m,
                   multiples_loop, multiples, N, approx_pi>>

NextLoops ==
    \/ CountInit
    \/ CountStep
    \/ CountEnd
    \/ WalkInit
    \/ WalkPrint
    \/ WalkMove
    \/ WalkEnd
    \/ MultInit
    \/ MultAppend
    \/ MultEnd
    \/ MultComprehension
    \/ PiReset
    \/ PiAdd
    \/ PiPrint

\* The interpreter runs a cell to its end: it never stops while a statement
\* remains to be executed.
SpecLoops == InitLoops /\ [][NextLoops]_vars /\ WF_vars(NextLoops)

----------------------------------------------------------------------------
\* The words processed so far, the number of times w occurs in s, and sums.

Processed == SubSeq(sample_words, 1, cursor)

Occurrences(s, w) == Cardinality({j \in 1..Len(s) : s[j] = w})

RECURSIVE SumOver(_, _)
SumOver(d, S) ==
    IF S = {} THEN 0
    ELSE LET x == CHOOSE y \in S : TRUE
         IN  d[x] + SumOver(d, S \ {x})

RECURSIVE SumSeq(_)
SumSeq(s) == IF s = <<>> THEN 0 ELSE Head(s) + SumSeq(Tail(s))

\* The dictionary the notebook shows for sample_words.
RecordedDict ==
    [w \in {SampleWords[j] : j \in 1..Len(SampleWords)} |->
        CASE w = "president" -> 4
          [] w \in {"apple", "computer", "dog", "duck"} -> 2
          [] OTHER -> 1]

\* The positions the notebook prints for steps.
RecordedPositions ==
    <<0, -1, 0, 1, 0, -1, 0, 1, 2, 1, 0, -1, -2, -3, -2, -3, -2, -3, -2, -1, 0, -1, -2, -1, 0, -1>>

\* The list the notebook shows for the multiples of 7.
RecordedMultiples ==
    <<7, 14, 21, 28, 35, 42, 49, 56, 63, 70, 77, 84, 91, 98, 105, 112, 119, 126, 133, 140>>

\* C15: at every point of the word-count loop the keys of my_dict are exactly
\* the distinct words processed so far, each value is the number of times its
\* word occurred among them, and the values sum to the number of words
\* processed; at the end all of sample_words has been processed.
C15_WordCount ==
    (prog = "count" /\ pc \in {"loop", "done"}) =>
        /\ DOMAIN my_dict = {sample_words[j] : j \in 1..cursor}
        /\ \A w \in DOMAIN my_dict : my_dict[w] = Occurrences(Processed, w)
        /\ SumOver(my_dict, DOMAIN my_dict) = cursor
        /\ pc = "done" => cursor = Len(sample_words)

\* C15 witness: the loop has ended on the notebook's sample_words with the
\* dictionary the notebook shows.
C15_Witness ==
    /\ prog = "count" /\ pc = "done"
    /\ sample_words = SampleWords
    /\ my_dict = RecordedDict

\* C16: the position starts at 0 and after k entries of steps equals their
\* sum; each iteration prints before it moves, so the i-th printed value is
\* the sum of the first i-1 steps and the first is 0; at the end len(steps)
\* values were printed and the position is the sum of all steps.
C16_PositionLoop ==
    (prog = "walk" /\ pc # "start") =>
        /\ position = SumSeq(SubSeq(steps, 1, cursor))
        /\ Len(printed) = (IF pc = "move" THEN cursor + 1 ELSE cursor)
        /\ \A i \in 1..Len(printed) : printed[i] = SumSeq(SubSeq(steps, 1, i - 1))
        /\ Len(printed) > 0 => printed[1] = 0
        /\ pc = "done" => (Len(printed) = Len(steps) /\ position = SumSeq(steps))

\* C16 witness: the loop has ended on the notebook's steps having printed what
\* the notebook shows.
C16_Witness ==
    /\ prog = "walk" /\ pc = "done"
    /\ steps = StepsList
    /\ printed = RecordedPositions
    /\ position = -2

\* C17: the list of the first 20 multiples of m has 20 elements, the k-th
\* being m*k (the first m, the last 20*m), and the for loop with append and
\* the list comprehension give the same list.
C17_Multiples ==
    prog = "mult" =>
        /\ pc \in {"comp", "done"} =>
               /\ Len(multiples_loop) = 20
               /\ \A j \in 1..20 : multiples_loop[j] = m * j
        /\ pc = "done" =>
               /\ Len(multiples) = 20
               /\ \A j \in 1..20 : multiples[j] = m * j
               /\ multiples = multiples_loop

\* C17 witness: both lists built for m = 7, as the notebook shows.
C17_Witness ==
    /\ prog = "mult" /\ pc = "done"
    /\ m = 7
    /\ multiples = RecordedMultiples
    /\ multiples_loop = RecordedMultiples

\* C18: each approximation loop starts from a reset accumulator and adds the
\* terms with index 0..N, each once and in order, so that what is printed for
\* N = 10, 20, 100, 1000 is the sum of exactly its own N+1 terms; and the four
\* loops terminate.
C18_PiLoops ==
    /\ [](prog = "pi" =>
            /\ pc = "loop" => approx_pi = [j \in 1..cursor |-> j - 1]
            /\ \A r \in 1..Len(printed) :
                   /\ printed[r].N = NValues[r]
                   /\ printed[r].approx_pi = [j \in 1..(NValues[r] + 1) |-> j - 1])
    /\ (prog = "pi") ~> (pc = "done" /\ Len(printed) = Len(NValues))

\* C18 witness: the four loops have ended, the last having added 1001 terms.
C18_Witness ==
    /\ prog = "pi" /\ pc = "done"
    /\ Len(printed) = 4
    /\ Len(printed[1].approx_pi) = 11
    /\ Len(printed[4].approx_pi) = 1001

----------------------------------------------------------------------------
\* Whole cells of the "Shallow and Deep Copies" problems run in one kernel.
\* A cell is the sequence of its statements; it runs until a statement
\* raises, and what the statements before it did stays done.

Columns == {"column_1", "column_2", "column_3"}

Rows == 0..2

\* pd.DataFrame({'column_1':[435, 999, 545], 'column_2':["ab", "bc", "de"],
\*               'column_3':[True, True, False]}), each value as it prints.
FrameLiteral ==
    [rc \in Rows \X Columns |->
        CASE rc[2] = "column_1" -> <<"435", "999", "545">>[rc[1] + 1]
          [] rc[2] = "column_2" -> <<"ab", "bc", "de">>[rc[1] + 1]
          [] OTHER -> <<"True", "True", "False">>[rc[1] + 1]]

\* The values assigned to a cell of the DataFrame.
FrameVals == {"cd"}

\* A DataFrame no name refers to any more is freed.
FrameCollect(fr, fs) ==
    [id \in FrameIds |-> IF \E n \in FrameNames : fr[n] = id THEN fs[id] ELSE NoFrame]

FrameFresh(fs) == Lowest({id \in FrameIds : fs[id].free})

FrameState(fr, fs) == [frames |-> fr, fstore |-> FrameCollect(fr, fs)]

\* df = pd.DataFrame({...})
FrameBind(fr, fs, n, table) ==
    LET id == FrameFresh(fs)
    IN  FrameState([fr EXCEPT ![n] = id], [fs EXCEPT ![id] = [free |-> FALSE, table |-> table]])

\* A copy that is the DataFrame itself.
FrameCopyShares(fr, fs) == FrameState([fr EXCEPT !["df_copy"] = fr["df"]], fs)

\* df_copy = df.copy(): a new DataFrame holding the values of df.
FrameCopyBind(fr, fs) ==
    LET id == FrameFresh(fs)
    IN  FrameState([fr EXCEPT !["df_copy"] = id], [fs EXCEPT ![id] = fs[fr["df"]]])

\* n.loc[r, c] = v
FrameStore(fr, fs, n, r, c, v) ==
    FrameState(fr, [fs EXCEPT ![fr[n]].table[<<r, c>>] = v])

\* The table print(n) shows.
FrameRead(fr, fs, n) == fs[fr[n]].table

NameError(n) == "NameError: name '" \o n \o "' is not defined"

\* A del that leaves the name bound.
DelNameKeeps(nsv, h, n) == State(nsv, h)

\* del n
DelName(nsv, h, n) == State([nsv EXCEPT ![n] = 0], h)

\* The kernel as a record, and the kernel nothing has run in.
Kernel(nsv, h, md, fr, fs, dl) ==
    [ns |-> nsv, heap |-> h, mods |-> md, frames |-> fr, fstore |-> fs,
     deleted |-> dl, out |-> <<>>, err |-> ""]

NewKernel ==
    Kernel([n \in Names |-> 0], [id \in ObjIds |-> FreeObj], {},
           [n \in FrameNames |-> 0], [id \in FrameIds |-> NoFrame], {})

Fail(st, e) == [st EXCEPT !.err = e]

\* The statement bound the name n of the kernel state s.
Rebound(st, s, n) ==
    [st EXCEPT !.ns = s.ns, !.heap = s.heap, !.deleted = @ \ {n}]

Stored(st, s) == [st EXCEPT !.ns = s.ns, !.heap = s.heap]

Framed(st, f) == [st EXCEPT !.frames = f.frames, !.fstore = f.fstore]

\* One statement: the names it reads are looked up first (NameError), then
\* the index is checked (IndexError, TypeError), then it takes effect.
Exec(st, stmt) ==
    CASE stmt.op = "import" -> [st EXCEPT !.mods = @ \cup {stmt.n}]
      [] stmt.op = "list" ->
            Rebound(st, BindFlat(st.ns, st.heap, "a", "list", FlatLiteral), "a")
      [] stmt.op = "nested" ->
            Rebound(st, BindNested(st.ns, st.heap, "a", NestedLiteral), "a")
      [] stmt.op = "array" ->
            IF "np" \notin st.mods THEN Fail(st, NameError("np"))
            ELSE Rebound(st, BindFlat(st.ns, st.heap, "a", "ndarray", ArrayLiteral), "a")
      [] stmt.op = "alias" ->
            IF ~Bound(st.ns, "a") THEN Fail(st, NameError("a"))
            ELSE Rebound(st, AliasBind(st.ns, st.heap), "b")
      [] stmt.op = "copy" ->
            IF "copy" \notin st.mods THEN Fail(st, NameError("copy"))
            ELSE IF ~Bound(st.ns, "a") THEN Fail(st, NameError("a"))
            ELSE Rebound(st, ShallowCopyBind(st.ns, st.heap), "b")
      [] stmt.op = "deepcopy" ->
            IF "copy" \notin st.mods THEN Fail(st, NameError("copy"))
            ELSE IF ~Bound(st.ns, "a") THEN Fail(st, NameError("a"))
            ELSE Rebound(st, DeepCopyBind(st.ns, st.heap), "b")
      [] stmt.op = "acopy" ->
            IF ~Bound(st.ns, "a") THEN Fail(st, NameError("a"))
            ELSE Rebound(st, ShallowCopyBind(st.ns, st.heap), "b")
      [] stmt.op = "setitem" ->
            IF ~Bound(st.ns, stmt.n) THEN Fail(st, NameError(stmt.n))
            ELSE IF stmt.i >= Len(st.heap[st.ns[stmt.n]].items) THEN Fail(st, "IndexError")
            ELSE Stored(st, StoreItem(st.ns, st.heap, stmt.n, stmt.i, stmt.v))
      [] stmt.op = "setnested" ->
            IF ~Bound(st.ns, stmt.n) THEN Fail(st, NameError(stmt.n))
            ELSE IF stmt.i >= Len(st.heap[st.ns[stmt.n]].items) THEN Fail(st, "IndexError")
            ELSE IF st.heap[st.ns[stmt.n]].items[stmt.i + 1].k # "ref" THEN Fail(st, "TypeError")
            ELSE IF stmt.j >= Len(st.heap[st.heap[st.ns[stmt.n]].items[stmt.i + 1].v].items)
                 THEN Fail(st, "IndexError")
            ELSE Stored(st, StoreNested(st.ns, st.heap, stmt.n, stmt.i, stmt.j, stmt.v))
      [] stmt.op = "show" ->
            IF ~Bound(st.ns, stmt.n) THEN Fail(st, NameError(stmt.n))
            ELSE [st EXCEPT !.out = Append(@, Read(st.ns, st.heap, stmt.n))]
      [] stmt.op = "del" ->
            IF ~Bound(st.ns, stmt.n) THEN Fail(st, NameError(stmt.n))
            ELSE [Stored(st, DelName(st.ns, st.heap, stmt.n)) EXCEPT !.deleted = @ \cup {stmt.n}]
      [] stmt.op = "frame" ->
            IF "pd" \notin st.mods THEN Fail(st, NameError("pd"))
            ELSE Framed(st, FrameBind(st.frames, st.fstore, "df", FrameLiteral))
      [] stmt.op = "fcopy" ->
            IF st.frames["df"] = 0 THEN Fail(st, NameError("df"))
            ELSE Framed(st, FrameCopyBind(st.frames, st.fstore))
      [] stmt.op = "floc" ->
            IF st.frames[stmt.n] = 0 THEN Fail(st, NameError(stmt.n))
            ELSE Framed(st, FrameStore(st.frames, st.fstore, stmt.n, stmt.i, stmt.j, stmt.v))
      [] stmt.op = "fshow" ->
            IF st.frames[stmt.n] = 0 THEN Fail(st, NameError(stmt.n))
            ELSE [st EXCEPT !.out = Append(@, FrameRead(st.frames, st.fstore, stmt.n))]

\* The statements of a cell from the i-th on, until one raises.
RECURSIVE RunFrom(_, _, _)
RunFrom(st, code, i) ==
    IF i > Len(code) \/ st.err # "" THEN st
    ELSE RunFrom(Exec(st, code[i]), code, i + 1)

\* A cell whose output area still holds the output of the cell before it.
RunCellAppends(st, code) == RunFrom([st EXCEPT !.err = ""], code, 1)

\* A cell run in the kernel st: its output and error start empty.
RunCell(st, code) == RunFrom([st EXCEPT !.out = <<>>, !.err = ""], code, 1)

\* a = [1,2,3,4,5,6]; b = a; b[3] = 71; print(a); print(b)
CellAliasList ==
    <<Stmt("list", "a", NoArg, NoArg, NoArg), Stmt("alias", "b", NoArg, NoArg, NoArg),
      Stmt("setitem", "b", 3, NoArg, 71),
      Stmt("show", "a", NoArg, NoArg, NoArg), Stmt("show", "b", NoArg, NoArg, NoArg)>>

\* import copy; b=copy.copy(a)
CellImportCopy ==
    <<Stmt("import", "copy", NoArg, NoArg, NoArg), Stmt("copy", "b", NoArg, NoArg, NoArg)>>

\* a=[1,2,3,4,5,6]; b[3]=71; print(a); print(b)
CellRebindA ==
    <<Stmt("list", "a", NoArg, NoArg, NoArg), Stmt("setitem", "b", 3, NoArg, 71),
      Stmt("show", "a", NoArg, NoArg, NoArg), Stmt("show", "b", NoArg, NoArg, NoArg)>>

\* a = [[1, 2, 3, 4], [5, 6, 7, 8]]; b = copy.copy(a); b[0][2] = 71; a
CellShallow ==
    <<Stmt("nested", "a", NoArg, NoArg, NoArg), Stmt("copy", "b", NoArg, NoArg, NoArg),
      Stmt("setnested", "b", 0, 2, 71), Stmt("show", "a", NoArg, NoArg, NoArg)>>

\* a = [[1, 2, 3, 4], [5, 6, 7, 8]]; b = copy.deepcopy(a); b[0][2] = 71; a
CellDeep ==
    <<Stmt("nested", "a", NoArg, NoArg, NoArg), Stmt("deepcopy", "b", NoArg, NoArg, NoArg),
      Stmt("setnested", "b", 0, 2, 71), Stmt("show", "a", NoArg, NoArg, NoArg)>>

\* import numpy as np
CellImportNumpy == <<Stmt("import", "np", NoArg, NoArg, NoArg)>>

\* a = np.array([1,2,3,4]); b = a; b[2] = 1; print(a); print(b)
CellAliasArray ==
    <<Stmt("array", "a", NoArg, NoArg, NoArg), Stmt("alias", "b", NoArg, NoArg, NoArg),
      Stmt("setitem", "b", 2, NoArg, 1),
      Stmt("show", "a", NoArg, NoArg, NoArg), Stmt("show", "b", NoArg, NoArg, NoArg)>>

\* a = np.array([1,2,3,4]); b = a.copy(); b[2] = 1; print(a); print(b)
CellArrayCopy ==
    <<Stmt("array", "a", NoArg, NoArg, NoArg), Stmt("acopy", "b", NoArg, NoArg, NoArg),
      Stmt("setitem", "b", 2, NoArg, 1),
      Stmt("show", "a", NoArg, NoArg, NoArg), Stmt("show", "b", NoArg, NoArg, NoArg)>>

\* del a, b
CellDel == <<Stmt("del", "a", NoArg, NoArg, NoArg), Stmt("del", "b", NoArg, NoArg, NoArg)>>

\* a
CellEvalA == <<Stmt("show", "a", NoArg, NoArg, NoArg)>>

\* b
CellEvalB == <<Stmt("show", "b", NoArg, NoArg, NoArg)>>

\* import pandas as pd; df = pd.DataFrame({...})
CellFrame ==
    <<Stmt("import", "pd", NoArg, NoArg, NoArg), Stmt("frame", "df", NoArg, NoArg, NoArg)>>

\* df_copy = df.copy()
CellFrameCopy == <<Stmt("fcopy", "df_copy", NoArg, NoArg, NoArg)>>

\* df_copy.loc[r, c] = v; print(df); print(df_copy)
CellLoc(r, c, v) ==
    <<Stmt("floc", "df_copy", r, c, v),
      Stmt("fshow", "df", NoArg, NoArg, NoArg), Stmt("fshow", "df_copy", NoArg, NoArg, NoArg)>>

\* Number of cells one kernel session runs.
MaxCells == 3

\* The kernel now, with what the last cell left in the output area.
Current == [Kernel(ns, heap, mods, frames, fstore, deleted) EXCEPT !.out = out, !.err = err]

\* Running a cell: the kernel and the cell's output and error after it.
Run(code) ==
    /\ ncells < MaxCells
    /\ LET st == RunCell(Current, code)
       IN  /\ ns' = st.ns
           /\ heap' = st.heap
           /\ mods' = st.mods
           /\ frames' = st.frames
           /\ fstore' = st.fstore
           /\ deleted' = st.deleted
           /\ out' = st.out
           /\ err' = st.err
    /\ cell' = code
    /\ ncells' = ncells + 1
    /\ UNCHANGED <<rel, replaced, last, nsteps, lvars>>

RunAliasList == Run(CellAliasList)

RunImportCopy == Run(CellImportCopy)

RunRebindA == Run(CellRebindA)

RunShallow == Run(CellShallow)

RunDeep == Run(CellDeep)

RunImportNumpy == Run(CellImportNumpy)

RunAliasArray == Run(CellAliasArray)

RunArrayCopy == Run(CellArrayCopy)

RunDel == Run(CellDel)

RunEvalA == Run(CellEvalA)

RunEvalB == Run(CellEvalB)

RunFrame == Run(CellFrame)

RunFrameCopy == Run(CellFrameCopy)

RunLoc(r, c, v) == Run(CellLoc(r, c, v))

NextCells ==
    \/ RunAliasList
    \/ RunImportCopy
    \/ RunRebindA
    \/ RunShallow
    \/ RunDeep
    \/ RunImportNumpy
    \/ RunAliasArray
    \/ RunArrayCopy
    \/ RunDel
    \/ RunEvalA
    \/ RunEvalB
    \/ RunFrame
    \/ RunFrameCopy
    \/ \E r \in Rows, c \in Columns, v \in FrameVals : RunLoc(r, c, v)

SpecCells == Init /\ [][NextCells]_vars

----------------------------------------------------------------------------
\* The DataFrame cells.

\* C11: df_copy = df.copy() makes a deep copy. A cell that assigns v to
\* row r, column c through df_copy and runs without error prints df with
\* every cell at its original value and df_copy with v at (r, c); df itself
\* is the same table before and after the cell.
C11_FrameCopyDeep ==
    [][\A r \in Rows, c \in Columns, v \in FrameVals :
          RunLoc(r, c, v) /\ err' = ""
          => /\ out'[1] = FrameLiteral
             /\ FrameRead(frames', fstore', "df") = FrameLiteral
             /\ FrameRead(frames', fstore', "df") = FrameRead(frames, fstore, "df")
             /\ out'[2][<<r, c>>] = v
             /\ \A rc \in (Rows \X Columns) \ {<<r, c>>} :
                   out'[2][rc] = FrameRead(frames, fstore, "df_copy")[rc]]_vars

\* The recorded run: df_copy.loc[2, 'column_2'] = "cd" printed df unchanged
\* and df_copy with cd in row 2 of column_2.
C11_Witness ==
    /\ cell = CellLoc(2, "column_2", "cd")
    /\ err = ""
    /\ out = <<FrameLiteral, [FrameLiteral EXCEPT ![<<2, "column_2">>] = "cd"]>>
    /\ frames["df"] # frames["df_copy"]

----------------------------------------------------------------------------
\* Deleted names.

\* C12: after del a, b a deleted name stays unbound until a statement binds
\* it again; evaluating it while it is deleted fails with NameError naming
\* it, prints nothing, binds nothing and leaves the names, the objects, the
\* imported modules and the DataFrames of the kernel as they were; once the
\* name is bound again the evaluation succeeds.
C12_DeletedNameError ==
    [][/\ \A n \in deleted' : ~Bound(ns', n)
       /\ \A n \in Names :
             Run(<<Stmt("show", n, NoArg, NoArg, NoArg)>>)
             => IF n \in deleted
                THEN /\ err' = NameError(n)
                     /\ out' = <<>>
                     /\ ns' = ns /\ heap' = heap /\ mods' = mods
                     /\ frames' = frames /\ fstore' = fstore
                     /\ deleted' = deleted
                ELSE Bound(ns, n) => err' = "" /\ out' = <<Read(ns, heap, n)>>]_vars

\* The recorded run: the cell a after del a, b.
C12_Witness ==
    /\ cell = CellEvalA
    /\ err = NameError("a")
    /\ err = "NameError: name 'a' is not defined"
    /\ deleted = {"a", "b"}
    /\ out = <<>>

----------------------------------------------------------------------------
\* Cells and the kernel namespace they share.

\* The names a statement reads, and the name it binds.
Reads(stmt) ==
    CASE stmt.op \in {"import", "list", "nested"} -> {}
      [] stmt.op = "array" -> {"np"}
      [] stmt.op \in {"alias", "acopy"} -> {"a"}
      [] stmt.op \in {"copy", "deepcopy"} -> {"copy", "a"}
      [] stmt.op = "frame" -> {"pd"}
      [] stmt.op = "fcopy" -> {"df"}
      [] OTHER -> {stmt.n}

Binds(stmt) ==
    CASE stmt.op = "import" -> {stmt.n}
      [] stmt.op \in {"list", "nested", "array"} -> {"a"}
      [] stmt.op \in {"alias", "copy", "deepcopy", "acopy"} -> {"b"}
      [] stmt.op = "frame" -> {"df"}
      [] stmt.op = "fcopy" -> {"df_copy"}
      [] OTHER -> {}

\* The name x is bound by a statement of the cell before its i-th statement
\* and not deleted in between.
BoundBefore(code, i, x) ==
    \E j \in 1..(i - 1) :
        /\ x \in Binds(code[j])
        /\ \A l \in (j + 1)..(i - 1) : ~(code[l].op = "del" /\ code[l].n = x)

\* A cell that binds every name it reads before it reads it.
SelfContained(code) ==
    \A i \in 1..Len(code) : \A x \in Reads(code[i]) : BoundBefore(code, i, x)

\* What the cell shows when it is the first cell of a new kernel.
Standalone(code) ==
    LET st == RunCell(NewKernel, code) IN <<st.out, st.err>>

NameErrors == {NameError(x) : x \in Names \cup FrameNames \cup {"copy", "np", "pd"}}

\* The statement of C13 as written: the result of every cell is the result
\* it has in a new kernel, whichever cells ran before it.
C13_EveryCellStandalone == ncells > 0 => <<out, err>> = Standalone(cell)

\* C13 (amended): the cells of a notebook share the kernel namespace. A cell
\* that binds every name it reads before reading it has the same result
\* whichever cells ran before it; every other cell reads a name bound by an
\* earlier cell and fails with NameError when it is the first to run.
C13_SelfContainedStandalone ==
    /\ ncells > 0 /\ SelfContained(cell) => <<out, err>> = Standalone(cell)
    /\ ncells = 1 /\ ~SelfContained(cell) => out = <<>> /\ err \in NameErrors

\* The alias cell run after other cells shows what it shows on its own, and
\* some cell that is not self-contained has run without error before it.
C13_Witness ==
    /\ ncells = MaxCells
    /\ cell = CellAliasList
    /\ SelfContained(cell)
    /\ <<out, err>> = <<<<Shown([FlatLiteral EXCEPT ![4] = 71]), Shown([FlatLiteral EXCEPT ![4] = 71])>>, "">>
    /\ "copy" \in mods
    /\ deleted = {}

----------------------------------------------------------------------------
\* The top level of a shallow copy: statements that replace, add or remove a
\* whole element of a list of lists.

\* The list a top-level element is replaced by, or that is appended.
NewLiteral == <<9, 9>>

\* n[i][:] = [x, ...]: the contents of the inner list are replaced in place.
StoreListInto(nsv, h, n, i, lit) ==
    State(nsv, [h EXCEPT ![h[nsv[n]].items[i + 1].v].items = IntItems(lit)])

\* n[i] = [x, ...]: the display is evaluated to a new list, then item i of
\* the object n refers to is made to refer to it.
StoreList(nsv, h, n, i, lit) ==
    LET id == Fresh(h)
    IN  State(nsv, [h EXCEPT ![id] = [kind |-> "list", items |-> IntItems(lit)],
                             ![nsv[n]].items[i + 1] = RefElem(id)])

\* n.append([x, ...]): a reference to the new list is added at the end.
AppendList(nsv, h, n, lit) ==
    LET id == Fresh(h)
    IN  State(nsv, [h EXCEPT ![id] = [kind |-> "list", items |-> IntItems(lit)],
                             ![nsv[n]].items = Append(@, RefElem(id))])

\* del n[i]: item i is taken out and the items after it move up.
RemoveItem(nsv, h, n, i) ==
    State(nsv, [h EXCEPT ![nsv[n]].items =
                    SubSeq(@, 1, i) \o SubSeq(@, i + 2, Len(@))])

TopStep(s, stmt) ==
    /\ ns' = s.ns
    /\ heap' = s.heap
    /\ last' = stmt
    /\ nsteps' = nsteps + 1
    /\ UNCHANGED <<rel, replaced, lvars, cvars>>

\* n[i] = [9, 9]
SetList(n, i) ==
    /\ CanRun /\ Bound(ns, n) /\ HasRoom(1)
    /\ i < Len(heap[ns[n]].items)
    /\ TopStep(StoreList(ns, heap, n, i, NewLiteral), Stmt("setlist", n, i, NoArg, NoArg))

\* n.append([9, 9])
AppendTo(n) ==
    /\ CanRun /\ Bound(ns, n) /\ HasRoom(1)
    /\ TopStep(AppendList(ns, heap, n, NewLiteral), Stmt("append", n, NoArg, NoArg, NoArg))

\* del n[i]
RemoveFrom(n, i) ==
    /\ CanRun /\ Bound(ns, n)
    /\ i < Len(heap[ns[n]].items)
    /\ TopStep(RemoveItem(ns, heap, n, i), Stmt("remove", n, i, NoArg, NoArg))

NextTop ==
    \/ AssignNested
    \/ CopyCopy
    \/ \E n \in Names, i \in Indices, j \in Indices, v \in Vals : SetNested(n, i, j, v)
    \/ \E n \in Names, i \in Indices : SetList(n, i)
    \/ \E n \in Names : AppendTo(n)
    \/ \E n \in Names, i \in Indices : RemoveFrom(n, i)

SpecTop == Init /\ [][NextTop]_vars

\* The top-level items of the object a name refers to.
Items(nsv, h, n) == h[nsv[n]].items

====
